---- MODULE Spec2Model ----
\* Model of examples/lasso/cell-lasso-stats_limited.py: the attribute-range
\* filter over the event/flash time series, the per-bin flash summary and its
\* CSV, the length-profile normalisation and output dispatch, and the
\* grid-subset reporting pass.
EXTENDS Integers, Sequences, FiniteSets, TLC

\* ---------------------------------------------------------------- bounds
MaxBins == 2    \* most time bins of the analysis window
MaxRec == 2     \* most event/flash records loaded into the whole time series
MaxTime == 3    \* latest end of the analysis window of the grid pass, in seconds
MaxFrames == 2  \* most frames a grid file collection yields
MaxCells == 2   \* most cells of a grid frame

\* Attribute values of the records and ends of the filter ranges.  The filter
\* only compares a value with the two ends of a range, so three values give
\* every outcome: below, on an end, strictly inside, above.
Values == {0, 1, 2}

\* ---------------------------------------------------------------- dtypes
EventNames == {"flash_id", "power"}
FlashNames(cg) == {"flash_id", "area"} \cup (IF cg THEN {"CG"} ELSE {})
\* keys a bounds mapping may name; "stations" is a field of neither record
\* kind of this model
BoundKeys == {"flash_id", "power", "area", "stations"}

VARIABLES
    \* the range filter (lines 64-84)
    pc, bounds, hasCG, events_in, flashes_in, filtered_time_series,
    events_series, flashes_series,
    \* the flash summary and its outputs (lines 133-208)
    t_edges_seconds, time_series, size_stats, IC_profiles, CG_profiles,
    flash_stats_csv, durations_min, IC_norm_profiles, CG_norm_profiles,
    profile_files,
    \* the grid-subset reporting pass (lines 280-367)
    t_start, t_end, field_id, frames, a_t, nonzero_size, datalog, figures,
    closed_logs

filterVars == <<bounds, hasCG, events_in, flashes_in, filtered_time_series,
                events_series, flashes_series>>
summaryVars == <<t_edges_seconds, time_series, size_stats, IC_profiles,
                 CG_profiles, flash_stats_csv, durations_min, IC_norm_profiles,
                 CG_norm_profiles, profile_files>>
gridVars == <<t_start, t_end, field_id, frames, a_t, nonzero_size, datalog,
             figures, closed_logs>>

vars == <<pc, filterVars, summaryVars, gridVars>>

\* ---------------------------------------------------------------- helpers
RECURSIVE SumSeq(_)
SumSeq(s) == IF s = <<>> THEN 0 ELSE Head(s) + SumSeq(Tail(s))

Range(s) == {s[i] : i \in DOMAIN s}

Lens(series) == [k \in DOMAIN series |-> Len(series[k])]

\* all orders in which the entries of a mapping with key set ks can be visited
Orders(ks) ==
    {o \in [1..Cardinality(ks) -> ks] : \A i, j \in DOMAIN o : i # j => o[i] # o[j]}

\* arr[good]: numpy boolean-mask indexing keeps the selected rows in order
RECURSIVE Select(_, _)
Select(arr, good) ==
    IF arr = <<>> THEN <<>>
    ELSE LET rest == Select(Tail(arr), [i \in 1..(Len(arr) - 1) |-> good[i + 1]])
         IN IF good[1] THEN <<Head(arr)>> \o rest ELSE rest

UnzipReversed(series, i) ==
    [k \in DOMAIN series |-> series[Len(series) + 1 - k][i]]

\* zip(*series)[i]: the i-th component of every tuple, in the order yielded
Unzip(series, i) == [k \in DOMAIN series |-> series[k][i]]

\* ---------------------------------------------------------------- range filter
AndMaskExclusive(good, arr, k, v_min, v_max) ==
    [i \in DOMAIN arr |-> good[i] /\ arr[i][k] > v_min /\ arr[i][k] < v_max]

AndMaskAssign(good, arr, k, v_min, v_max) ==
    [i \in DOMAIN arr |-> arr[i][k] >= v_min /\ arr[i][k] <= v_max]

\* good &= (arr[k] >= v_min) & (arr[k] <= v_max)
AndMask(good, arr, k, v_min, v_max) ==
    [i \in DOMAIN arr |-> good[i] /\ arr[i][k] >= v_min /\ arr[i][k] <= v_max]

\* the loop over bounds.items(), visiting the keys in the given order
RECURSIVE ApplyBounds(_, _, _, _, _)
ApplyBounds(good, arr, names, bnds, order) ==
    IF order = <<>> THEN good
    ELSE LET k == Head(order)
             v_min == bnds[k][1]
             v_max == bnds[k][2]
             next == IF k \in names THEN AndMask(good, arr, k, v_min, v_max)
                     ELSE good
         IN ApplyBounds(next, arr, names, bnds, Tail(order))

\* one iteration of gen_filtered_time_series: np.ones, the bounds loop, arr[good]
FilterArray(arr, names, bnds, order) ==
    Select(arr, ApplyBounds([i \in DOMAIN arr |-> TRUE], arr, names, bnds, order))

\* ---------------------------------------------------------------- inputs
\* (v_min, v_max) pairs of a bounds mapping
Ranges == {r \in Values \X Values : r[1] <= r[2]}

\* bounds mappings of at most two entries: field name -> (v_min, v_max)
BoundsMappings ==
    UNION {[ks -> Ranges] : ks \in {s \in SUBSET BoundKeys : Cardinality(s) <= 2}}

\* bounds = {'area': (0.0, 1.0e10)}; areas are counted in units of 10 km^2
ScriptBounds == [k \in {"area"} |-> <<0, 1000000000>>]

TotalRecords == SumSeq(Lens(events_in)) + SumSeq(Lens(flashes_in))

\* an event / a flash as the loader appends it to a bin; flash ids number the
\* records of an array
NewEvent(arr, v) == [flash_id |-> Len(arr) + 1, power |-> v]
NewFlash(arr, v, cg) ==
    IF hasCG THEN [flash_id |-> Len(arr) + 1, area |-> v, CG |-> cg]
    ELSE [flash_id |-> Len(arr) + 1, area |-> v]

\* ---------------------------------------------------------------- actions
\* get_event_flash_time_series builds one event array and one flash array per
\* time bin; records arrive one at a time
LoadEvent ==
    /\ pc = "load"
    /\ TotalRecords < MaxRec
    /\ \E k \in DOMAIN events_in, v \in Values :
          events_in' = [events_in EXCEPT ![k] = Append(@, NewEvent(@, v))]
    /\ UNCHANGED <<pc, bounds, hasCG, flashes_in, filtered_time_series,
                   events_series, flashes_series, summaryVars, gridVars>>

LoadFlash ==
    /\ pc = "load"
    /\ TotalRecords < MaxRec
    /\ \E k \in DOMAIN flashes_in, v \in Values, cg \in {0, 1} :
          /\ (~hasCG => cg = 0)
          /\ flashes_in' = [flashes_in EXCEPT ![k] = Append(@, NewFlash(@, v, cg))]
    /\ UNCHANGED <<pc, bounds, hasCG, events_in, filtered_time_series,
                   events_series, flashes_series, summaryVars, gridVars>>

\* filtered_time_series = gen_filtered_time_series(...): nothing runs yet
StartFilter ==
    /\ pc = "load"
    /\ pc' = "filter"
    /\ UNCHANGED <<filterVars, summaryVars, gridVars>>

\* one iteration of the generator's loop over zip(events_series, flashes_series);
\* bounds.items() visits the entries in some order
FilterBin ==
    /\ pc = "filter"
    /\ Len(filtered_time_series) < Len(events_in)
    /\ Len(filtered_time_series) < Len(flashes_in)
    /\ LET k == Len(filtered_time_series) + 1
       IN \E order \in Orders(DOMAIN bounds) :
             filtered_time_series' = Append(filtered_time_series,
                 <<FilterArray(events_in[k], EventNames, bounds, order),
                   FilterArray(flashes_in[k], FlashNames(hasCG), bounds, order)>>)
    /\ UNCHANGED <<pc, bounds, hasCG, events_in, flashes_in,
                   events_series, flashes_series, summaryVars, gridVars>>

\* events_series, flashes_series = zip(*filtered_time_series), once the
\* generator is exhausted
Materialize ==
    /\ pc = "filter"
    /\ ~(Len(filtered_time_series) < Len(events_in)
         /\ Len(filtered_time_series) < Len(flashes_in))
    /\ events_series' = Unzip(filtered_time_series, 1)
    /\ flashes_series' = Unzip(filtered_time_series, 2)
    /\ pc' = "summary"
    /\ UNCHANGED <<bounds, hasCG, events_in, flashes_in, filtered_time_series,
                   summaryVars, gridVars>>

\* ---------------------------------------------------------------- flash summary
\* dt = timedelta(minutes=30), in seconds
dt == 1800

Min(a, b) == IF a < b THEN a ELSE b
Max(a, b) == IF a > b THEN a ELSE b

\* bin edges at t_start + k*dt, the last one clamped to t_end; times are
\* seconds since the base date
TimeEdges(ts, te) ==
    LET n == ((te - ts) + dt - 1) \div dt
    IN [k \in 1..(n + 1) |-> Min(ts + (k - 1) * dt, te)]

\* datetime.isoformat(): date and time of day joined by 'T'
IsoFormat(t) == <<t \div 86400, "T", t % 86400>>

\* str(datetime): date and time of day joined by a blank
StrFormat(t) == <<t \div 86400, " ", t % 86400>>

\* t_edges_to_isoformat(as_start_end=True): the bins' start and end edges
TEdgesToIsoformat(edges) ==
    <<[k \in 1..(Len(edges) - 1) |-> IsoFormat(edges[k])],
      [k \in 1..(Len(edges) - 1) |-> IsoFormat(edges[k + 1])]>>

Areas(flashes) == [i \in DOMAIN flashes |-> flashes[i].area]

\* a moment of the flash areas: NaN over no flashes, else a value fixed by the areas
Moment(name, areas) == IF areas = <<>> THEN <<"NaN">> ELSE <<name, areas>>

\* flash_size_stats(flashes): a structured array holding one record
FlashSizeStats(flashes) ==
    LET areas == Areas(flashes)
    IN <<[number |-> Len(flashes),
          mean |-> IF areas = <<>> THEN <<"NaN">> ELSE <<SumSeq(areas), Len(areas)>>,
          variance |-> Moment("variance", areas),
          skewness |-> Moment("skewness", areas),
          kurtosis |-> Moment("kurtosis", areas),
          energy |-> <<"energy", areas>>,
          energy_per_flash |-> Moment("energy_per_flash", areas)]>>

\* flashes whose polarity field has the given value
Polarity(flashes, cg) == SelectSeq(flashes, LAMBDA f : f.CG = cg)

\* process_events_flashes: the flashes accumulated into the IC and the CG
\* profile; without a polarity field every flash goes to the IC accumulator
ProcessEventsFlashes(events, flashes, names) ==
    IF "CG" \in names
    THEN <<Len(Polarity(flashes, 0)), Len(Polarity(flashes, 1))>>
    ELSE <<Len(flashes), 0>>

\* the body of gen_flash_summary_time_series' loop: size_stats, IC_profile, CG_profile
SummaryOfBin(events, flashes, names) ==
    <<FlashSizeStats(flashes), ProcessEventsFlashes(events, flashes, names)[1],
      ProcessEventsFlashes(events, flashes, names)[2]>>

\* stack_arrays: the arrays' records, one array after the other
RECURSIVE StackArrays(_)
StackArrays(arrays) ==
    IF arrays = <<>> THEN <<>> ELSE Head(arrays) \o StackArrays(Tail(arrays))

FillStats == [number |-> <<"fill">>, mean |-> <<"fill">>, variance |-> <<"fill">>,
              skewness |-> <<"fill">>, kurtosis |-> <<"fill">>,
              energy |-> <<"fill">>, energy_per_flash |-> <<"fill">>]

\* append_fields(size_stats, ('start_isoformat','end_isoformat'), data=...):
\* rows are paired by position, a shorter side is padded with fill values
AppendFields(base, iso_start, iso_end) ==
    [k \in 1..Max(Len(base), Max(Len(iso_start), Len(iso_end))) |->
        [stats |-> IF k <= Len(base) THEN base[k] ELSE FillStats,
         start_isoformat |-> IF k <= Len(iso_start) THEN iso_start[k] ELSE <<"fill">>,
         end_isoformat |-> IF k <= Len(iso_end) THEN iso_end[k] ELSE <<"fill">>]]

Header == <<"start_isoformat", "end_isoformat", "number", "mean", "variance",
            "skewness", "kurtosis", "energy", "energy_per_flash">>

StatLine(stats) ==
    <<stats.start_isoformat, stats.end_isoformat, stats.stats.number,
      stats.stats.mean, stats.stats.variance, stats.stats.skewness,
      stats.stats.kurtosis, stats.stats.energy, stats.stats.energy_per_flash>>

WriteNonEmptyStatData(stats) ==
    <<Header>> \o [k \in DOMAIN SelectSeq(stats, LAMBDA r : r.stats.number # 0) |->
                      StatLine(SelectSeq(stats, LAMBDA r : r.stats.number # 0)[k])]

\* write_size_stat_data: the header, then one line per record
WriteSizeStatData(stats) ==
    <<Header>> \o [k \in DOMAIN stats |-> StatLine(stats[k])]

DurationsSkippingFirst(edges) ==
    [k \in 1..(Len(edges) - 2) |-> (edges[k + 2] - edges[k + 1]) \div 60]

\* (t_edges_seconds[1:] - t_edges_seconds[:-1])/60.0
DurationsMin(edges) ==
    [k \in 1..(Len(edges) - 1) |-> (edges[k + 1] - edges[k]) \div 60]

\* normalize_profiles: each bin's profile over its duration, a rate per minute
NormalizeProfiles(profiles, durations) ==
    [k \in 1..Min(Len(profiles), Len(durations)) |-> <<profiles[k], durations[k]>>]

ProfileOutputsAlwaysTotal(names, ic_norm, cg_norm) ==
    <<[file |-> "total", data |-> ic_norm], [file |-> "_total.pdf", data |-> ic_norm]>>

\* lines 197-208: the profile files and figures written
ProfileOutputs(names, ic_norm, cg_norm) ==
    IF "CG" \in names
    THEN <<[file |-> "IC", data |-> ic_norm], [file |-> "CG", data |-> cg_norm],
           [file |-> "_CG.pdf", data |-> cg_norm], [file |-> "_IC.pdf", data |-> ic_norm]>>
    ELSE <<[file |-> "total", data |-> ic_norm], [file |-> "_total.pdf", data |-> ic_norm]>>

\* one iteration of gen_flash_summary_time_series
SummaryBin ==
    /\ pc = "summary"
    /\ Len(time_series) < Len(events_series)
    /\ Len(time_series) < Len(flashes_series)
    /\ LET k == Len(time_series) + 1
       IN time_series' = Append(time_series,
              SummaryOfBin(events_series[k], flashes_series[k], FlashNames(hasCG)))
    /\ UNCHANGED <<pc, filterVars, t_edges_seconds, size_stats, IC_profiles,
                   CG_profiles, flash_stats_csv, durations_min, IC_norm_profiles,
                   CG_norm_profiles, profile_files, gridVars>>

\* size_stats, IC_profiles, CG_profiles = zip(*time_series), then stack_arrays
\* and append_fields (lines 145-152)
StackStats ==
    /\ pc = "summary"
    /\ ~(Len(time_series) < Len(events_series) /\ Len(time_series) < Len(flashes_series))
    /\ LET iso == TEdgesToIsoformat(t_edges_seconds)
       IN size_stats' = AppendFields(
              StackArrays(Unzip(time_series, 1)),
              iso[1], iso[2])
    /\ IC_profiles' = Unzip(time_series, 2)
    /\ CG_profiles' = Unzip(time_series, 3)
    /\ pc' = "write_stats"
    /\ UNCHANGED <<filterVars, t_edges_seconds, time_series, flash_stats_csv,
                   durations_min, IC_norm_profiles, CG_norm_profiles,
                   profile_files, gridVars>>

\* write_size_stat_data(stats_filename, size_stats)
WriteStats ==
    /\ pc = "write_stats"
    /\ flash_stats_csv' = WriteSizeStatData(size_stats)
    /\ pc' = "durations"
    /\ UNCHANGED <<filterVars, t_edges_seconds, time_series, size_stats,
                   IC_profiles, CG_profiles, durations_min, IC_norm_profiles,
                   CG_norm_profiles, profile_files, gridVars>>

\* durations_min = ... (line 181)
Durations ==
    /\ pc = "durations"
    /\ durations_min' = DurationsMin(t_edges_seconds)
    /\ pc' = "normalize"
    /\ UNCHANGED <<filterVars, t_edges_seconds, time_series, size_stats,
                   IC_profiles, CG_profiles, flash_stats_csv, IC_norm_profiles,
                   CG_norm_profiles, profile_files, gridVars>>

\* the two calls of normalize_profiles (lines 184-185)
Normalize ==
    /\ pc = "normalize"
    /\ IC_norm_profiles' = NormalizeProfiles(IC_profiles, durations_min)
    /\ CG_norm_profiles' = NormalizeProfiles(CG_profiles, durations_min)
    /\ pc' = "profiles"
    /\ UNCHANGED <<filterVars, t_edges_seconds, time_series, size_stats,
                   IC_profiles, CG_profiles, flash_stats_csv, durations_min,
                   profile_files, gridVars>>

\* if 'CG' in flashes_series[0].dtype.names: ... else: ... (lines 197-208)
WriteProfiles ==
    /\ pc = "profiles"
    /\ profile_files' = ProfileOutputs(FlashNames(hasCG), IC_norm_profiles, CG_norm_profiles)
    /\ pc' = "done"
    /\ UNCHANGED <<filterVars, t_edges_seconds, time_series, size_stats,
                   IC_profiles, CG_profiles, flash_stats_csv, durations_min,
                   IC_norm_profiles, CG_norm_profiles, gridVars>>

SummaryIdle ==
    /\ time_series = <<>>
    /\ size_stats = <<>>
    /\ IC_profiles = <<>>
    /\ CG_profiles = <<>>
    /\ flash_stats_csv = <<>>
    /\ durations_min = <<>>
    /\ IC_norm_profiles = <<>>
    /\ CG_norm_profiles = <<>>
    /\ profile_files = <<>>

GridIdle ==
    /\ field_id = 0
    /\ frames = <<>>
    /\ a_t = <<>>
    /\ nonzero_size = <<>>
    /\ datalog = <<>>
    /\ figures = {}
    /\ closed_logs = <<>>

\* ---------------------------------------------------------------- grid pass
\* field_names, indexed by the position in field_ids_to_run
field_names == <<"flash_extent", "flash_initiation", "lma_source", "flash_footprint">>

\* the seconds added to a frame's time before the lasso test (line 299)
Padding == 1

\* flattened grid data: each cell's value and whether its centre is inside
\* the lasso polygon
CellArrays == UNION {[1..n -> [value : Values, inside : BOOLEAN]] : n \in 1..MaxCells}

RECURSIVE Insert(_, _)
Insert(x, s) ==
    IF s = <<>> THEN <<x>>
    ELSE IF x <= Head(s) THEN <<x>> \o s ELSE <<Head(s)>> \o Insert(x, Tail(s))

RECURSIVE Sort(_)
Sort(s) == IF s = <<>> THEN <<>> ELSE Insert(Head(s), Sort(Tail(s)))

RECURSIVE MaxSeq(_)
MaxSeq(s) == IF Len(s) = 1 THEN Head(s) ELSE Max(Head(s), MaxSeq(Tail(s)))

\* scipy.stats.scoreatpercentile with linear interpolation, in hundredths
ScoreAtPercentile(a, per) ==
    LET sorted == Sort(a)
        idx == per * (Len(a) - 1)
        i == idx \div 100
        f == idx % 100
    IN IF f = 0 THEN 100 * sorted[i + 1]
       ELSE (100 - f) * sorted[i + 1] + f * sorted[i + 2]

\* grid_lassos.filter_mask(a): a cell passes when its time falls in a time bin
\* of the lasso and its centre is inside the polygon
FilterMask(cells, at) ==
    [i \in DOMAIN cells |-> at >= t_start /\ at < t_end /\ cells[i].inside]

CellValues(cells) == [i \in DOMAIN cells |-> cells[i].value]

\* filtered[field_name] and nonzero_filtered[field_name] (lines 304-307)
Filtered(cells, at) == CellValues(Select(cells, FilterMask(cells, at)))
NonzeroFiltered(cells, at) == SelectSeq(Filtered(cells, at), LAMBDA v : v > 0)

DatalogHeader == <<"time (ISO)", "max count per grid box", "sum of all grid boxes",
                   "5th percentile", "50th percentile", "95th percentile">>

DatalogRowOmittingEmpty(t, cells, at) ==
    IF Len(NonzeroFiltered(cells, at)) > 0
    THEN <<<<IsoFormat(t), MaxSeq(Filtered(cells, at)), SumSeq(Filtered(cells, at)),
             ScoreAtPercentile(NonzeroFiltered(cells, at), 5),
             ScoreAtPercentile(NonzeroFiltered(cells, at), 50),
             ScoreAtPercentile(NonzeroFiltered(cells, at), 95)>>>>
    ELSE <<>>

\* lines 322-329: the rows a frame adds to the datalog; the percentiles are in
\* hundredths
DatalogRow(t, cells, at) ==
    IF Len(NonzeroFiltered(cells, at)) > 0
    THEN <<<<IsoFormat(t), MaxSeq(Filtered(cells, at)), SumSeq(Filtered(cells, at)),
             ScoreAtPercentile(NonzeroFiltered(cells, at), 5),
             ScoreAtPercentile(NonzeroFiltered(cells, at), 50),
             ScoreAtPercentile(NonzeroFiltered(cells, at), 95)>>>>
    ELSE <<<<StrFormat(t), 0, 0, 0, 0, 0>>>>

\* if (t >= t_start) & (t <= t_end)
InGridWindow(t) == t >= t_start /\ t <= t_end

\* the head of the loop over field_ids_to_run: the datalog is opened and its
\* header written (lines 334-359)
OpenField ==
    /\ pc = "grid"
    /\ datalog = <<>>
    /\ field_id <= Len(field_names)
    /\ datalog' = <<DatalogHeader>>
    /\ frames' = <<>>
    /\ figures' = {}
    /\ UNCHANGED <<pc, filterVars, summaryVars, t_start, t_end, field_id, a_t,
                   nonzero_size, closed_logs>>

\* one iteration of "for t, xedge, yedge, data in GC": the collection yields
\* its frames in time order
GridFrame ==
    /\ pc = "grid"
    /\ datalog # <<>>
    /\ Len(frames) < MaxFrames
    /\ \E t \in 0..(MaxTime + 1), cells \in CellArrays :
          /\ \A i \in DOMAIN frames : frames[i] < t
          /\ frames' = Append(frames, t)
          /\ IF InGridWindow(t)
             THEN /\ a_t' = <<t + Padding>>
                  /\ nonzero_size' = <<Len(NonzeroFiltered(cells, t + Padding))>>
                  /\ datalog' = datalog \o DatalogRow(t, cells, t + Padding)
                  /\ figures' = figures \cup {t}
             ELSE UNCHANGED <<a_t, nonzero_size, datalog, figures>>
    /\ UNCHANGED <<pc, filterVars, summaryVars, t_start, t_end, field_id, closed_logs>>

\* the collection is exhausted: datalog.close(), on to the next field; a closed
\* datalog is not touched again
CloseField ==
    /\ pc = "grid"
    /\ datalog # <<>>
    /\ datalog' = <<>>
    /\ closed_logs' = Append(closed_logs, field_names[field_id])
    /\ field_id' = field_id + 1
    /\ pc' = IF field_id = Len(field_names) THEN "end" ELSE "grid"
    /\ UNCHANGED <<filterVars, summaryVars, t_start, t_end, frames, a_t,
                   nonzero_size, figures>>

\* ---------------------------------------------------------------- the range filter alone
InitFilter ==
    /\ pc = "load"
    /\ bounds \in BoundsMappings
    /\ hasCG = FALSE
    /\ t_start = 0
    /\ \E n \in 1..MaxBins :
          /\ t_end = n * dt
          /\ events_in = [k \in 1..n |-> <<>>]
          /\ flashes_in = [k \in 1..n |-> <<>>]
    /\ t_edges_seconds = TimeEdges(t_start, t_end)
    /\ filtered_time_series = <<>>
    /\ events_series = <<>>
    /\ flashes_series = <<>>
    /\ SummaryIdle
    /\ GridIdle

NextFilter == LoadEvent \/ LoadFlash \/ StartFilter \/ FilterBin \/ Materialize

SpecFilter == InitFilter /\ [][NextFilter]_vars

\* ---------------------------------------------------------------- the script, lines 43-208
\* the analysis window spans a whole number of ten-minute steps, so that the
\* bin widths are whole minutes
Init ==
    /\ pc = "load"
    /\ bounds = ScriptBounds
    /\ hasCG \in BOOLEAN
    /\ t_start = 0
    /\ t_end \in {600 * j : j \in 1..(3 * MaxBins)}
    /\ t_edges_seconds = TimeEdges(t_start, t_end)
    /\ events_in = [k \in 1..(Len(t_edges_seconds) - 1) |-> <<>>]
    /\ flashes_in = [k \in 1..(Len(t_edges_seconds) - 1) |-> <<>>]
    /\ filtered_time_series = <<>>
    /\ events_series = <<>>
    /\ flashes_series = <<>>
    /\ SummaryIdle
    /\ GridIdle

Next ==
    \/ LoadEvent \/ LoadFlash \/ StartFilter \/ FilterBin \/ Materialize
    \/ SummaryBin \/ StackStats \/ WriteStats \/ Durations \/ Normalize
    \/ WriteProfiles

Spec == Init /\ [][Next]_vars

\* ---------------------------------------------------------------- the grid pass, lines 274-367
InitGrid ==
    /\ pc = "grid"
    /\ bounds = ScriptBounds
    /\ hasCG = FALSE
    /\ t_start \in 1..MaxTime
    /\ t_end \in 1..MaxTime
    /\ t_start < t_end
    /\ t_edges_seconds = TimeEdges(t_start, t_end)
    /\ events_in = <<>>
    /\ flashes_in = <<>>
    /\ filtered_time_series = <<>>
    /\ events_series = <<>>
    /\ flashes_series = <<>>
    /\ SummaryIdle
    /\ field_id = 1
    /\ frames = <<>>
    /\ a_t = <<>>
    /\ nonzero_size = <<>>
    /\ datalog = <<>>
    /\ figures = {}
    /\ closed_logs = <<>>

NextGrid == OpenField \/ GridFrame \/ CloseField

SpecGrid == InitGrid /\ [][NextGrid]_vars

\* ---------------------------------------------------------------- properties
\* a record passes every bound whose field its kind possesses
Kept(row, names) ==
    \A key \in (DOMAIN bounds) \cap names :
        bounds[key][1] <= row[key] /\ row[key] <= bounds[key][2]

RECURSIVE IsSubSeq(_, _)
IsSubSeq(a, b) ==
    IF a = <<>> THEN TRUE
    ELSE IF b = <<>> THEN FALSE
    ELSE IF Head(a) = Head(b) THEN IsSubSeq(Tail(a), Tail(b))
    ELSE IsSubSeq(a, Tail(b))

\* C1: for every bin the filter has yielded, the events and the flashes it
\* retained are exactly the records whose value lies in [v_min, v_max], both
\* ends included, for every bound whose field the record kind possesses; a
\* bound on a field the kind lacks removes nothing.
C1_RetainedIffWithinBounds ==
    \A k \in DOMAIN filtered_time_series :
        /\ filtered_time_series[k][1]
              = SelectSeq(events_in[k], LAMBDA r : Kept(r, EventNames))
        /\ filtered_time_series[k][2]
              = SelectSeq(flashes_in[k], LAMBDA r : Kept(r, FlashNames(hasCG)))

\* a bin of two flashes filtered under a bound on a field of neither kind and
\* a proper range on area: one flash, on the upper end, is retained, the other
\* is removed
C1_Witness ==
    /\ pc = "summary"
    /\ DOMAIN bounds = {"stations", "area"}
    /\ bounds["area"][1] < bounds["area"][2]
    /\ \E k \in DOMAIN flashes_in :
          /\ Len(flashes_in[k]) = 2
          /\ Len(flashes_series[k]) = 1
          /\ flashes_series[k][1].area = bounds["area"][2]

\* C2: the filter yields at most one pair per bin, and once materialized
\* events_series and flashes_series have one entry per input bin, the k-th
\* made only of records of the k-th input bin, in their order.
C2_OnePairPerBinInOrder ==
    /\ Len(filtered_time_series) <= Len(events_in)
    /\ pc \notin {"load", "filter"} =>
          /\ Len(events_series) = Len(events_in)
          /\ Len(flashes_series) = Len(flashes_in)
          /\ \A k \in DOMAIN events_series :
                /\ IsSubSeq(events_series[k], events_in[k])
                /\ IsSubSeq(flashes_series[k], flashes_in[k])

\* two bins materialized: the first keeps a flash and no event, the second an
\* event and no flash
C2_Witness ==
    /\ pc = "summary"
    /\ Len(events_in) = 2
    /\ flashes_series[1] # <<>>
    /\ events_series[1] = <<>>
    /\ events_series[2] # <<>>
    /\ flashes_series[2] = <<>>

\* C3: whatever the order in which the entries of the bounds mapping are
\* visited, filtering a bin again gives the subsets the filter yielded.
C3_SameSubsetsInEveryOrder ==
    \A k \in DOMAIN filtered_time_series :
        \A order \in Orders(DOMAIN bounds) :
            /\ FilterArray(events_in[k], EventNames, bounds, order)
                  = filtered_time_series[k][1]
            /\ FilterArray(flashes_in[k], FlashNames(hasCG), bounds, order)
                  = filtered_time_series[k][2]

\* two bounds on fields of the flashes, and a flash that passes one bound and
\* fails the other
C3_Witness ==
    /\ pc = "summary"
    /\ DOMAIN bounds = {"flash_id", "area"}
    /\ \E k \in DOMAIN flashes_in : \E i \in DOMAIN flashes_in[k] :
          LET f == flashes_in[k][i]
          IN /\ bounds["area"][1] <= f.area /\ f.area <= bounds["area"][2]
             /\ ~(bounds["flash_id"][1] <= f.flash_id /\ f.flash_id <= bounds["flash_id"][2])
             /\ Len(flashes_series[k]) < Len(flashes_in[k])

\* C4: the statistics file holds the header and then one line per time bin, in
\* bin order, empty bins included; the k-th line has the number and the areas
\* of the k-th bin's flashes and the k-th bin's start and end edge.
C4_OneStatsLinePerBin ==
    flash_stats_csv # <<>> =>
        /\ Len(flash_stats_csv) = 1 + Len(flashes_in)
        /\ \A k \in DOMAIN flashes_series :
              /\ k + 1 <= Len(flash_stats_csv)
              /\ flash_stats_csv[k + 1][1] = IsoFormat(t_edges_seconds[k])
              /\ flash_stats_csv[k + 1][2] = IsoFormat(t_edges_seconds[k + 1])
              /\ flash_stats_csv[k + 1][3] = Len(flashes_series[k])
              /\ flash_stats_csv[k + 1][8] = <<"energy", Areas(flashes_series[k])>>

\* the file is written for two bins, the first without flashes, the second
\* with one
C4_Witness ==
    /\ flash_stats_csv # <<>>
    /\ Len(flashes_series) = 2
    /\ flashes_series[1] = <<>>
    /\ flashes_series[2] # <<>>

\* C5: when normalize_profiles is called there are as many durations as IC
\* profiles and as CG profiles, one per bin; the k-th duration is the width in
\* minutes of the k-th bin, whose flashes are the ones accumulated in the k-th
\* IC and CG profile.
C5_DurationsAlignWithProfiles ==
    pc = "normalize" =>
        /\ Len(durations_min) = Len(t_edges_seconds) - 1
        /\ Len(IC_profiles) = Len(durations_min)
        /\ Len(CG_profiles) = Len(durations_min)
        /\ \A k \in DOMAIN IC_profiles :
              /\ k <= Len(durations_min)
              /\ durations_min[k] * 60 = t_edges_seconds[k + 1] - t_edges_seconds[k]
              /\ IC_profiles[k] + CG_profiles[k] = Len(flashes_series[k])

\* two bins of different width and of different flash counts reach the call
C5_Witness ==
    /\ pc = "normalize"
    /\ Len(durations_min) = 2
    /\ durations_min[1] # durations_min[2]
    /\ IC_profiles[1] # IC_profiles[2]

ProfileFiles == {profile_files[i].file : i \in DOMAIN profile_files}

\* C6: nothing is written before the dispatch, and a finished run has written
\* either the IC and the CG profile and no total profile, when the flashes
\* have the CG field, or else the total profile alone, from the IC profiles.
C6_OneKindOfProfileOutput ==
    /\ pc # "done" => profile_files = <<>>
    /\ pc = "done" =>
          IF hasCG
          THEN /\ [file |-> "IC", data |-> IC_norm_profiles] \in Range(profile_files)
               /\ [file |-> "CG", data |-> CG_norm_profiles] \in Range(profile_files)
               /\ "total" \notin ProfileFiles
          ELSE /\ [file |-> "total", data |-> IC_norm_profiles] \in Range(profile_files)
               /\ "IC" \notin ProfileFiles
               /\ "CG" \notin ProfileFiles

\* a finished run over flashes with the CG field, one of them a CG flash
C6_Witness ==
    /\ pc = "done"
    /\ hasCG
    /\ \E k \in DOMAIN CG_profiles : CG_profiles[k] > 0

\* C7: a frame the collection has yielded is processed, its figure saved,
\* exactly when its time lies in [t_start, t_end).
C7_ProcessedIffInHalfOpenWindow ==
    \A i \in DOMAIN frames :
        (frames[i] \in figures) <=> (t_start <= frames[i] /\ frames[i] < t_end)

\* C8: the open datalog holds the header and one row per processed frame, every
\* row has the header's six fields, and the row of a frame with no nonzero
\* cell inside the lasso has 0 for the max, the sum and the percentiles.
C8_OneSixFieldRowPerFrame ==
    datalog # <<>> =>
        /\ Len(datalog) = 1 + Cardinality(figures)
        /\ Cardinality(figures)
              = Cardinality({i \in DOMAIN frames : t_start <= frames[i] /\ frames[i] <= t_end})
        /\ \A i \in DOMAIN datalog : Len(datalog[i]) = 6
        /\ (Len(datalog) > 1 /\ nonzero_size = <<0>>) =>
              \A j \in 2..6 : datalog[Len(datalog)][j] = 0

\* two frames processed: the first has a nonzero cell inside the lasso, the
\* second has none
C8_Witness ==
    /\ Len(datalog) = 3
    /\ datalog[2][2] > 0
    /\ nonzero_size = <<0>>

\* C9: the padded time of a processed frame lies in the analysis window.
C9_PaddedTimeInWindow ==
    a_t # <<>> => (t_start <= a_t[1] /\ a_t[1] <= t_end)

\* C10: the first field of every datalog row is date and time joined by 'T'.
C10_RowTimeIsIsoFormat ==
    \A i \in 2..Len(datalog) : datalog[i][1][2] = "T"

====
